---------------------------- MODULE Spec2Model ----------------------------
(***************************************************************************)
(* A model of the tdmath crate: Vector2i, Vector3, Vector4, Quaternion and *)
(* Matrix4.  The crate is a library of pure functions over value types, so *)
(* each specification below draws the arguments of a call in its initial   *)
(* state and its actions apply the function to them; the two rejection-    *)
(* sampling loops are modelled step by step.                               *)
(*                                                                         *)
(* f32 values are modelled as exact rationals n/d (d > 0), with d = 0 for  *)
(* the IEEE special values: 1/0 = +Inf, -1/0 = -Inf, 0/0 = NaN.  Every     *)
(* arithmetic result is passed through F32Round, which rounds an integer  *)
(* that needs more than 24 significant bits to the nearest f32 (ties to    *)
(* even), exactly as `as f32` and the f32 operators do.  Values that are   *)
(* not integers are kept as exact rationals: they are small dyadic         *)
(* rationals (exact in f32) wherever a claim depends on rounding, and the  *)
(* rounding error of a quotient such as 1/3 is not modelled.               *)
(* Signed zeros are not distinguished.                                     *)
(***************************************************************************)
EXTENDS Integers, Sequences, FiniteSets, TLC

VARIABLES
    pc,     \* position of the call: "call", "loop", "ret" or "panic"
    fn,     \* the function being called
    args,   \* the arguments of the call (a record)
    this,   \* the receiver of an indexing call (`self`)
    p,      \* the local `p` of random_in_unit_sphere / random_in_unit_disk
    ret     \* the value returned (a record with a `kind` field)

vars == <<pc, fn, args, this, p, ret>>

------------------------------------------------------------------------------
(* f32 arithmetic *)

\* Number of significant bits of an f32 (the type of every float field).
F32_MANTISSA_DIGITS == 24

Abs(i) == IF i < 0 THEN -i ELSE i

Sign(i) == IF i < 0 THEN -1 ELSE IF i > 0 THEN 1 ELSE 0

RECURSIVE Gcd(_, _)
Gcd(a, b) == IF b = 0 THEN a ELSE Gcd(b, a % b)

\* The rational n/d in lowest terms with a positive denominator; d = 0 gives
\* +Inf, -Inf or NaN according to the sign of n.
Rat(n, d) ==
    IF d = 0 THEN [n |-> Sign(n), d |-> 0]
    ELSE IF d = 1 THEN [n |-> n, d |-> 1]
    ELSE LET g == Gcd(Abs(n), Abs(d))
             s == IF d < 0 THEN -1 ELSE 1
         IN  [n |-> s * (n \div g), d |-> s * (d \div g)]

F(i) == [n |-> i, d |-> 1]

NaN == [n |-> 0, d |-> 0]

IsNaN(a) == a.d = 0 /\ a.n = 0

IsFinite(a) == a.d # 0

\* Every integer of smaller magnitude is an f32.
F32_EXACT == 2 ^ F32_MANTISSA_DIGITS

\* The spacing of the f32 values around the integer magnitude m: the least
\* power of two u with m < 2^24 * u.
RECURSIVE Ulp(_, _)
Ulp(m, u) == IF m < F32_EXACT * u THEN u ELSE Ulp(m, 2 * u)

\* Round an integer to the nearest f32, ties to even.
RoundInt(i) ==
    LET m == Abs(i)
        u == Ulp(m, 1)
        q == m \div u
        r == m % u
        up == (2 * r > u) \/ (2 * r = u /\ q % 2 = 1)
    IN  IF m < F32_EXACT THEN i
        ELSE Sign(i) * u * (IF up THEN q + 1 ELSE q)

\* The f32 nearest to a value.  Integers are rounded; see the module comment
\* for the other values.
F32Round(a) == IF a.d = 1 THEN F(RoundInt(a.n)) ELSE a

\* `x as f32` for an i32 x.
AsF32(i) == F32Round(F(i))

FNeg(a) == [n |-> -a.n, d |-> a.d]

FAdd(a, b) ==
    IF a.d = 0 /\ b.d = 0
    THEN (IF a.n = b.n THEN a ELSE NaN)
    ELSE IF a.d = 0 THEN a
    ELSE IF b.d = 0 THEN b
    ELSE LET g == Gcd(a.d, b.d)
         IN  F32Round(Rat(a.n * (b.d \div g) + b.n * (a.d \div g),
                          (a.d \div g) * b.d))

FSub(a, b) == FAdd(a, FNeg(b))

FMul(a, b) == F32Round(Rat(a.n * b.n, a.d * b.d))

FDiv(a, b) ==
    IF b.n < 0 THEN F32Round(Rat(-(a.n * b.d), -(a.d * b.n)))
    ELSE F32Round(Rat(a.n * b.d, a.d * b.n))

\* a < b on f32: false when either side is NaN.
FLt(a, b) ==
    /\ ~IsNaN(a)
    /\ ~IsNaN(b)
    /\ IF a.d # 0 /\ b.d # 0 THEN a.n * b.d < b.n * a.d
       ELSE IF a.d = 0 /\ b.d = 0 THEN a.n < b.n
       ELSE IF a.d = 0 THEN a.n < 0
       ELSE b.n > 0

\* f32::sqrt, on the values whose root is rational (the specifications only
\* take roots of such values); the root of a negative value is NaN.
IsSquare(i) == \E k \in 0..i : k * k = i

ISqrt(i) == CHOOSE k \in 0..i : k * k = i

HasExactSqrt(a) == a.d # 0 /\ a.n >= 0 /\ IsSquare(a.n) /\ IsSquare(a.d)

FSqrt(a) ==
    IF a.d = 0 THEN (IF a.n > 0 THEN a ELSE NaN)
    ELSE IF a.n < 0 THEN NaN
    ELSE Rat(ISqrt(a.n), ISqrt(a.d))

\* Exact rational arithmetic (no rounding), used to state properties of f32
\* values.
QAdd(a, b) ==
    LET g == Gcd(a.d, b.d)
    IN  Rat(a.n * (b.d \div g) + b.n * (a.d \div g), (a.d \div g) * b.d)

QMul(a, b) ==
    LET g == Gcd(Abs(a.n), b.d)
        h == Gcd(Abs(b.n), a.d)
    IN  Rat((a.n \div g) * (b.n \div h), (a.d \div h) * (b.d \div g))

------------------------------------------------------------------------------
(* Vector3 *)

Vector3_new(x, y, z) == [x |-> x, y |-> y, z |-> z]

Vector3_zero == Vector3_new(F(0), F(0), F(0))

dot(v0, v1) ==
    FAdd(FAdd(FMul(v0.x, v1.x), FMul(v0.y, v1.y)), FMul(v0.z, v1.z))

cross(v0, v1) ==
    [x |-> FSub(FMul(v0.y, v1.z), FMul(v0.z, v1.y)),
     y |-> FSub(FMul(v0.z, v1.x), FMul(v0.x, v1.z)),
     z |-> FSub(FMul(v0.x, v1.y), FMul(v0.y, v1.x))]

length_squared(v) ==
    FAdd(FAdd(FMul(v.x, v.x), FMul(v.y, v.y)), FMul(v.z, v.z))

length(v) == FSqrt(length_squared(v))

normalized(v) ==
    LET l == length(v)
    IN  Vector3_new(FDiv(v.x, l), FDiv(v.y, l), FDiv(v.z, l))

Vector3_add(a, b) == [x |-> FAdd(a.x, b.x), y |-> FAdd(a.y, b.y), z |-> FAdd(a.z, b.z)]

Vector3_sub(a, b) == [x |-> FSub(a.x, b.x), y |-> FSub(a.y, b.y), z |-> FSub(a.z, b.z)]

Vector3_mul_f32(a, s) == [x |-> FMul(a.x, s), y |-> FMul(a.y, s), z |-> FMul(a.z, s)]

None == [kind |-> "None"]

Some(v) == [kind |-> "Some", v |-> v]

NoValue == [kind |-> "NoValue"]

------------------------------------------------------------------------------
(* Vector2i *)

Vector2i_new(x, y) == [x |-> x, y |-> y]

\* Vector2i::barycentric.  The i32 subtractions are exact for the
\* coordinates drawn below (no i32 overflow).
Vector2i_barycentric(point, v0, v1, v2) ==
    LET x == Vector3_new(AsF32(v2.x - v0.x), AsF32(v1.x - v0.x), AsF32(v0.x - point.x))
        y == Vector3_new(AsF32(v2.y - v0.y), AsF32(v1.y - v0.y), AsF32(v0.y - point.y))
        u == cross(x, y)
    IN  IF FLt(u.z, F(1)) THEN None
        ELSE Some(Vector3_new(FSub(F(1), FDiv(FAdd(u.x, u.y), u.z)),
                              FDiv(u.y, u.z),
                              FDiv(u.x, u.z)))

\* Coordinates of the raster points drawn as arguments.
MaxCoord2i == 2

\* An i32 that is not an f32: 2^24 + 1.
BigCoord == 2 ^ F32_MANTISSA_DIGITS + 1

\* Two points far from the origin on the line through it, x = BigCoord * y.
FarPoints2i == {Vector2i_new(k * BigCoord, k) : k \in {1, 3}}

Points2i ==
    {Vector2i_new(x, y) : x \in 0..MaxCoord2i, y \in 0..MaxCoord2i} \cup FarPoints2i

InitVector2i ==
    /\ pc = "call"
    /\ fn = "Vector2i::barycentric"
    /\ args \in [point : Points2i, v0 : Points2i, v1 : Points2i, v2 : Points2i]
    /\ this = NoValue
    /\ p = Vector3_zero
    /\ ret = NoValue

CallVector2iBarycentric ==
    /\ pc = "call"
    /\ fn = "Vector2i::barycentric"
    /\ ret' = Vector2i_barycentric(args.point, args.v0, args.v1, args.v2)
    /\ pc' = "ret"
    /\ UNCHANGED <<fn, args, this, p>>

NextVector2i == CallVector2iBarycentric

SpecVector2i == InitVector2i /\ [][NextVector2i]_vars

------------------------------------------------------------------------------
(* Geometry used to state the claims about Vector2i::barycentric, in exact
   integer arithmetic. *)

\* Twice the signed area of the triangle a, b, c.
Orient(a, b, c) == (b.x - a.x) * (c.y - a.y) - (b.y - a.y) * (c.x - a.x)

Collinear(a, b, c) == Orient(a, b, c) = 0

\* The point lies strictly outside the (non-degenerate) triangle: it is on
\* the far side of one of the edges.
StrictlyOutside(q, a, b, c) ==
    LET s == Sign(Orient(a, b, c))
    IN  /\ s # 0
        /\ \/ Sign(Orient(a, b, q)) = -s
           \/ Sign(Orient(b, c, q)) = -s
           \/ Sign(Orient(c, a, q)) = -s

Returned2i == pc = "ret" /\ fn = "Vector2i::barycentric"

\* C1: whenever v0, v1, v2 are collinear, Vector2i::barycentric returns None.
C1_CollinearIsNone ==
    (Returned2i /\ Collinear(args.v0, args.v1, args.v2)) => ret.kind = "None"

\* The values u.x, u.y, u.z of the cross product may exceed what one
\* multiplication of the model checker holds, so products of a weight's
\* numerator and a coordinate are kept as three base-2^15 coefficients
\* <<c2, c1, c0>>, standing for c2 * Limb^2 + c1 * Limb + c0.
Limb == 2 ^ 15

WideNorm(c) ==
    LET t1 == c[2] + (c[3] \div Limb)
    IN  <<c[1] + (t1 \div Limb), t1 % Limb, c[3] % Limb>>

WideMul(a, b) ==
    LET a1 == a \div Limb
        a0 == a % Limb
        b1 == b \div Limb
        b0 == b % Limb
    IN  WideNorm(<<a1 * b1, a1 * b0 + a0 * b1, a0 * b0>>)

WideAdd(c, e) == WideNorm(<<c[1] + e[1], c[2] + e[2], c[3] + e[3]>>)

Lcm(a, b) == (a \div Gcd(a, b)) * b

\* The barycentric identity of the weights wt = (u, v, w) for `point` in the
\* triangle v0, v1, v2, over the integers: with D a common denominator of
\* the weights and U, V, W their numerators, U + V + W = D and
\* D * point = U * v0 + V * v1 + W * v2 on both axes.
IsBarycentric2i(wt, point, v0, v1, v2) ==
    /\ IsFinite(wt.x) /\ IsFinite(wt.y) /\ IsFinite(wt.z)
    /\ LET D == Lcm(Lcm(wt.x.d, wt.y.d), wt.z.d)
           U == wt.x.n * (D \div wt.x.d)
           V == wt.y.n * (D \div wt.y.d)
           W == wt.z.n * (D \div wt.z.d)
       IN  /\ U + V + W = D
           /\ WideAdd(WideAdd(WideMul(U, v0.x), WideMul(V, v1.x)), WideMul(W, v2.x))
                 = WideMul(D, point.x)
           /\ WideAdd(WideAdd(WideMul(U, v0.y), WideMul(V, v1.y)), WideMul(W, v2.y))
                 = WideMul(D, point.y)

\* C2: whenever Vector2i::barycentric returns Some((u, v, w)), u + v + w = 1
\* and point = u*v0 + v*v1 + w*v2 on both axes.
C2_SomeIsBarycentric ==
    (Returned2i /\ ret.kind = "Some") =>
        IsBarycentric2i(ret.v, args.point, args.v0, args.v1, args.v2)

\* C3: whenever the point lies strictly outside the triangle v0, v1, v2,
\* Vector2i::barycentric returns None.
C3_OutsideIsNone ==
    (Returned2i /\ StrictlyOutside(args.point, args.v0, args.v1, args.v2)) =>
        ret.kind = "None"

\* What the function does where every coordinate difference is exact in
\* f32: the result is None exactly when the signed area of v0, v2, v1 is
\* below 1 (collinear or inverted), whatever the point, and otherwise
\* satisfies the barycentric identity.
AllNear2i == \A k \in {"point", "v0", "v1", "v2"} : args[k].x <= MaxCoord2i

NearBarycentric2i ==
    (Returned2i /\ AllNear2i) =>
        /\ ret.kind = "None" <=> Orient(args.v0, args.v2, args.v1) < 1
        /\ ret.kind = "Some" =>
              IsBarycentric2i(ret.v, args.point, args.v0, args.v1, args.v2)

------------------------------------------------------------------------------
(* Vector4, Quaternion, Matrix4 *)

Vector4_new(x, y, z, w) == [x |-> x, y |-> y, z |-> z, w |-> w]

xyz(v) == Vector3_new(v.x, v.y, v.z)

to_vector4(v, w) == Vector4_new(v.x, v.y, v.z, w)

Quaternion_of(x, y, z, w) == [x |-> x, y |-> y, z |-> z, w |-> w]

\* impl Mul for Quaternion, with the vector product the wrong way round.
Quaternion_mul_swapped(self, other) ==
    LET qv == Vector3_new(self.x, self.y, self.z)
        rv == Vector3_new(other.x, other.y, other.z)
        v == Vector3_add(Vector3_add(cross(rv, qv), Vector3_mul_f32(qv, other.w)),
                         Vector3_mul_f32(rv, self.w))
        w == FSub(FMul(self.w, other.w), dot(qv, rv))
    IN  Quaternion_of(v.x, v.y, v.z, w)

\* impl Mul for Quaternion.
Quaternion_mul(self, other) ==
    LET qv == Vector3_new(self.x, self.y, self.z)
        rv == Vector3_new(other.x, other.y, other.z)
        v == Vector3_add(Vector3_add(cross(qv, rv), Vector3_mul_f32(qv, other.w)),
                         Vector3_mul_f32(rv, self.w))
        w == FSub(FMul(self.w, other.w), dot(qv, rv))
    IN  Quaternion_of(v.x, v.y, v.z, w)

\* A matrix is its `data`: rows 0..3 of columns 0..3.
Idx4 == 0..3

Row(r) == [j \in Idx4 |-> r[j + 1]]

Rows(r0, r1, r2, r3) == (0 :> Row(r0)) @@ (1 :> Row(r1)) @@ (2 :> Row(r2)) @@ (3 :> Row(r3))

Matrix4_zero ==
    Rows(<<F(0), F(0), F(0), F(0)>>, <<F(0), F(0), F(0), F(0)>>,
         <<F(0), F(0), F(0), F(0)>>, <<F(0), F(0), F(0), F(0)>>)

Matrix4_identity ==
    Rows(<<F(1), F(0), F(0), F(0)>>, <<F(0), F(1), F(0), F(0)>>,
         <<F(0), F(0), F(1), F(0)>>, <<F(0), F(0), F(0), F(1)>>)

translation(x, y, z) ==
    Rows(<<F(1), F(0), F(0), x>>, <<F(0), F(1), F(0), y>>,
         <<F(0), F(0), F(1), z>>, <<F(0), F(0), F(0), F(1)>>)

scale(x, y, z) ==
    Rows(<<x, F(0), F(0), F(0)>>, <<F(0), y, F(0), F(0)>>,
         <<F(0), F(0), z, F(0)>>, <<F(0), F(0), F(0), F(1)>>)

\* Matrix4::rotation with the diagonal terms not doubled.
rotation_undoubled(q) ==
    LET qx2 == FMul(q.x, q.x)
        qy2 == FMul(q.y, q.y)
        qz2 == FMul(q.z, q.z)
        qxqy == FMul(q.x, q.y)
        qxqz == FMul(q.x, q.z)
        qyqz == FMul(q.y, q.z)
        qwqx == FMul(q.w, q.x)
        qwqy == FMul(q.w, q.y)
        qwqz == FMul(q.w, q.z)
    IN  Rows(<<FSub(F(1), FAdd(qy2, qz2)), FMul(F(2), FSub(qxqy, qwqz)),
               FMul(F(2), FAdd(qxqz, qwqy)), F(0)>>,
             <<FMul(F(2), FAdd(qxqy, qwqz)), FSub(F(1), FAdd(qx2, qz2)),
               FMul(F(2), FSub(qyqz, qwqx)), F(0)>>,
             <<FMul(F(2), FSub(qxqz, qwqy)), FMul(F(2), FAdd(qyqz, qwqx)),
               FSub(F(1), FAdd(qx2, qy2)), F(0)>>,
             <<F(0), F(0), F(0), F(1)>>)

\* Matrix4::rotation.
rotation(q) ==
    LET qx2 == FMul(q.x, q.x)
        qy2 == FMul(q.y, q.y)
        qz2 == FMul(q.z, q.z)
        qxqy == FMul(q.x, q.y)
        qxqz == FMul(q.x, q.z)
        qyqz == FMul(q.y, q.z)
        qwqx == FMul(q.w, q.x)
        qwqy == FMul(q.w, q.y)
        qwqz == FMul(q.w, q.z)
    IN  Rows(<<FSub(F(1), FMul(F(2), FAdd(qy2, qz2))), FMul(F(2), FSub(qxqy, qwqz)),
               FMul(F(2), FAdd(qxqz, qwqy)), F(0)>>,
             <<FMul(F(2), FAdd(qxqy, qwqz)), FSub(F(1), FMul(F(2), FAdd(qx2, qz2))),
               FMul(F(2), FSub(qyqz, qwqx)), F(0)>>,
             <<FMul(F(2), FSub(qxqz, qwqy)), FMul(F(2), FAdd(qyqz, qwqx)),
               FSub(F(1), FMul(F(2), FAdd(qx2, qy2))), F(0)>>,
             <<F(0), F(0), F(0), F(1)>>)

\* Matrix4::look_at.
look_at(position, look, up) ==
    LET forward == normalized(Vector3_sub(position, look))
        left == normalized(cross(forward, normalized(up)))
        new_up == cross(forward, left)
    IN  Rows(<<left.x, new_up.x, forward.x, FNeg(dot(left, position))>>,
             <<left.y, new_up.y, forward.y, FNeg(dot(new_up, position))>>,
             <<left.z, new_up.z, forward.z, FNeg(dot(forward, position))>>,
             <<F(0), F(0), F(0), F(1)>>)

\* The loop of impl Mul<Matrix4> for Matrix4: step k writes r[i][j] for
\* i = k / 4, j = k % 4, starting from the buffer r.
RECURSIVE Matrix4_mul_loop(_, _, _, _)
Matrix4_mul_loop(r, self, other, k) ==
    IF k = 16 THEN r
    ELSE LET i == k \div 4
             j == k % 4
             e == FAdd(FAdd(FAdd(FMul(self[i][0], other[0][j]),
                                 FMul(self[i][1], other[1][j])),
                            FMul(self[i][2], other[2][j])),
                       FMul(self[i][3], other[3][j]))
         IN  Matrix4_mul_loop([r EXCEPT ![i][j] = e], self, other, k + 1)

\* impl Mul<Matrix4> for Matrix4 with the operands exchanged.
Matrix4_mul_swapped(self, other) ==
    Matrix4_mul_loop(Matrix4_identity, other, self, 0)

\* impl Mul<Matrix4> for Matrix4.
Matrix4_mul(self, other) == Matrix4_mul_loop(Matrix4_identity, self, other, 0)

\* impl Mul<Vector3> for Matrix4 without the translation column.
Matrix4_mul_Vector3_linear(self, other) ==
    LET row(i) == FAdd(FAdd(FMul(other.x, self[i][0]), FMul(other.y, self[i][1])),
                       FMul(other.z, self[i][2]))
    IN  Vector3_new(row(0), row(1), row(2))

\* impl Mul<Vector3> for Matrix4.
Matrix4_mul_Vector3(self, other) ==
    LET row(i) == FAdd(FAdd(FAdd(FMul(other.x, self[i][0]), FMul(other.y, self[i][1])),
                            FMul(other.z, self[i][2])),
                       self[i][3])
    IN  Vector3_new(row(0), row(1), row(2))

\* impl Mul<Vector4> for Matrix4.
Matrix4_mul_Vector4(self, other) ==
    LET row(i) == FAdd(FAdd(FAdd(FMul(other.x, self[i][0]), FMul(other.y, self[i][1])),
                            FMul(other.z, self[i][2])),
                       FMul(other.w, self[i][3]))
    IN  Vector4_new(row(0), row(1), row(2), row(3))

------------------------------------------------------------------------------
(* Rotations: Matrix4::rotation of unit quaternions, applied and composed *)

\* The norm of a quaternion is 1 (exactly).
IsUnit(q) ==
    QAdd(QAdd(QMul(q.x, q.x), QMul(q.y, q.y)), QAdd(QMul(q.z, q.z), QMul(q.w, q.w))) = F(1)

\* Components of the unit quaternions drawn: 0, 1/2, 1 give the 24 Hurwitz
\* units (exact in f32); 3/5, 4/5 give rotations that are not signed
\* permutations.
QuaternionParts == {F(0), F(1), F(-1), Rat(1, 2), Rat(-1, 2), Rat(3, 5), Rat(4, 5)}

UnitQuaternions ==
    {q \in [x : QuaternionParts, y : QuaternionParts,
            z : QuaternionParts, w : QuaternionParts] : IsUnit(q)}

\* Coordinates of the Vector3 arguments drawn: -MaxCoord3 .. MaxCoord3, or
\* 0 .. MaxCoord3 where two quaternions are drawn as well.
MaxCoord3 == 1

Vectors3 ==
    {Vector3_new(F(x), F(y), F(z)) :
        x \in -MaxCoord3..MaxCoord3, y \in -MaxCoord3..MaxCoord3, z \in -MaxCoord3..MaxCoord3}

CornerVectors3 ==
    {Vector3_new(F(x), F(y), F(z)) :
        x \in 0..MaxCoord3, y \in 0..MaxCoord3, z \in 0..MaxCoord3}

InitRotation ==
    /\ pc = "call"
    /\ fn = "Matrix4::rotation"
    /\ args \in [q : UnitQuaternions, v : Vectors3]
    /\ this = NoValue
    /\ p = Vector3_zero
    /\ ret = NoValue

\* Matrix4::rotation(q) * v
CallRotation ==
    /\ pc = "call"
    /\ fn = "Matrix4::rotation"
    /\ ret' = Some(Matrix4_mul_Vector3(rotation(args.q), args.v))
    /\ pc' = "ret"
    /\ UNCHANGED <<fn, args, this, p>>

NextRotation == CallRotation

SpecRotation == InitRotation /\ [][NextRotation]_vars

ReturnedRotation == pc = "ret" /\ fn = "Matrix4::rotation"

InitCompose ==
    /\ pc = "call"
    /\ fn = "Quaternion::mul"
    /\ args \in [a : UnitQuaternions, b : UnitQuaternions, v : CornerVectors3]
    /\ this = NoValue
    /\ p = Vector3_zero
    /\ ret = NoValue

\* let ab = Matrix4::rotation(a * b);
\* let a_b = Matrix4::rotation(a) * Matrix4::rotation(b);
\* let ab_v = ab * v;
\* let a_b_v = Matrix4::rotation(a) * (Matrix4::rotation(b) * v);
CallCompose ==
    /\ pc = "call"
    /\ fn = "Quaternion::mul"
    /\ LET ab == rotation(Quaternion_mul(args.a, args.b))
       IN  ret' = [kind |-> "Some",
                   ab |-> ab,
                   a_b |-> Matrix4_mul(rotation(args.a), rotation(args.b)),
                   ab_v |-> Matrix4_mul_Vector3(ab, args.v),
                   a_b_v |-> Matrix4_mul_Vector3(rotation(args.a),
                                Matrix4_mul_Vector3(rotation(args.b), args.v))]
    /\ pc' = "ret"
    /\ UNCHANGED <<fn, args, this, p>>

NextCompose == CallCompose

SpecCompose == InitCompose /\ [][NextCompose]_vars

ReturnedCompose == pc = "ret" /\ fn = "Quaternion::mul"

\* C4: for unit quaternions a and b, Matrix4::rotation(a * b) equals
\* Matrix4::rotation(a) * Matrix4::rotation(b), and applied to any Vector3 v
\* it gives rotation(a) * (rotation(b) * v): the right factor acts first.
C4_CompositionOrder ==
    ReturnedCompose => (ret.ab = ret.a_b /\ ret.ab_v = ret.a_b_v)

\* Two rotations that do not commute have been composed and applied to a
\* vector that the composition moves.
C4_Witness ==
    /\ ReturnedCompose
    /\ Quaternion_mul(args.a, args.b) # Quaternion_mul(args.b, args.a)
    /\ ret.ab_v # args.v
    /\ ret.ab = ret.a_b
    /\ ret.ab_v = ret.a_b_v

------------------------------------------------------------------------------
(* Matrix4 * Vector3 against Matrix4 * Vector4 *)

\* Rows of the matrices drawn: the rows of affine matrices and rows that are
\* not, as the bottom row (0, 0, -1, 0) of Matrix4::perpective.
MatrixRows ==
    {<<F(1), F(0), F(0), F(0)>>, <<F(0), F(0), F(0), F(1)>>,
     <<F(0), F(0), F(-1), F(0)>>, <<F(-1), F(2), Rat(1, 2), F(3)>>}

Matrices == {Rows(r0, r1, r2, r3) : r0 \in MatrixRows, r1 \in MatrixRows,
                                    r2 \in MatrixRows, r3 \in MatrixRows}

InitMulVector3 ==
    /\ pc = "call"
    /\ fn = "Matrix4::mul"
    /\ args \in [m : Matrices, v : Vectors3]
    /\ this = NoValue
    /\ p = Vector3_zero
    /\ ret = NoValue

\* let v = m * v; let v4 = m * v.to_vector4(1.0);
CallMulVector3 ==
    /\ pc = "call"
    /\ fn = "Matrix4::mul"
    /\ ret' = [kind |-> "Some",
               v |-> Matrix4_mul_Vector3(args.m, args.v),
               v4 |-> Matrix4_mul_Vector4(args.m, to_vector4(args.v, F(1)))]
    /\ pc' = "ret"
    /\ UNCHANGED <<fn, args, this, p>>

NextMulVector3 == CallMulVector3

SpecMulVector3 == InitMulVector3 /\ [][NextMulVector3]_vars

ReturnedMulVector3 == pc = "ret" /\ fn = "Matrix4::mul"

\* C6: for every matrix m and Vector3 v, m * v is the x, y, z of
\* m * v.to_vector4(1.0): w = 1 goes in, and the resulting w is dropped
\* without dividing by it.
C6_ImplicitW ==
    ReturnedMulVector3 => ret.v = xyz(ret.v4)

\* A matrix that is not affine has been applied: the translation column
\* contributed, and the w that came out, not 1 and not 0, was dropped.
C6_Witness ==
    /\ ReturnedMulVector3
    /\ args.m[3] # Matrix4_identity[3]
    /\ args.m[0][3] # F(0)
    /\ ret.v4.w # F(1) /\ ret.v4.w # F(0)
    /\ ret.v = xyz(ret.v4)
    /\ ret.v.x # FDiv(ret.v4.x, ret.v4.w)

------------------------------------------------------------------------------
(* Matrix4::look_at *)

\* f32::sqrt is modelled on this value: it is a special value, negative, or
\* the square of a rational.
SqrtModelled(a) == a.d = 0 \/ a.n < 0 \/ (IsSquare(a.n) /\ IsSquare(a.d))

\* The three normalisations of look_at take modelled roots.
LookAtModelled(position, look, up) ==
    /\ SqrtModelled(length_squared(Vector3_sub(position, look)))
    /\ SqrtModelled(length_squared(up))
    /\ SqrtModelled(length_squared(cross(normalized(Vector3_sub(position, look)),
                                         normalized(up))))

InitLookAt ==
    /\ pc = "call"
    /\ fn = "Matrix4::look_at"
    /\ args \in [position : Vectors3, look : Vectors3, up : Vectors3]
    /\ LookAtModelled(args.position, args.look, args.up)
    /\ this = NoValue
    /\ p = Vector3_zero
    /\ ret = NoValue

CallLookAt ==
    /\ pc = "call"
    /\ fn = "Matrix4::look_at"
    /\ ret' = Some(look_at(args.position, args.look, args.up))
    /\ pc' = "ret"
    /\ UNCHANGED <<fn, args, this, p>>

NextLookAt == CallLookAt

SpecLookAt == InitLookAt /\ [][NextLookAt]_vars

ReturnedLookAt == pc = "ret" /\ fn = "Matrix4::look_at"

IsFiniteVector3(v) == IsFinite(v.x) /\ IsFinite(v.y) /\ IsFinite(v.z)

\* The camera basis of the claim, computed from the arguments.
LookAtForward == normalized(Vector3_sub(args.position, args.look))

LookAtLeft == normalized(cross(LookAtForward, normalized(args.up)))

LookAtNewUp == cross(LookAtForward, LookAtLeft)

\* position # look, and up is neither zero nor parallel to forward.
LookAtNonDegenerate ==
    IsFiniteVector3(LookAtForward) /\ IsFiniteVector3(LookAtLeft)

\* C7: for every non-degenerate input the rows of Matrix4::look_at are
\* (left, -dot(left, position)), (new_up, -dot(new_up, position)),
\* (forward, -dot(forward, position)) and (0, 0, 0, 1).
C7_RowsAreBasis ==
    (ReturnedLookAt /\ LookAtNonDegenerate) =>
        ret.v = Rows(<<LookAtLeft.x, LookAtLeft.y, LookAtLeft.z,
                       FNeg(dot(LookAtLeft, args.position))>>,
                     <<LookAtNewUp.x, LookAtNewUp.y, LookAtNewUp.z,
                       FNeg(dot(LookAtNewUp, args.position))>>,
                     <<LookAtForward.x, LookAtForward.y, LookAtForward.z,
                       FNeg(dot(LookAtForward, args.position))>>,
                     <<F(0), F(0), F(0), F(1)>>)

\* What the code builds: the basis vectors are the columns of the upper 3x3
\* block, while the fourth column is as in the claim.
LookAtColumnsAreBasis ==
    (ReturnedLookAt /\ LookAtNonDegenerate) =>
        ret.v = Rows(<<LookAtLeft.x, LookAtNewUp.x, LookAtForward.x,
                       FNeg(dot(LookAtLeft, args.position))>>,
                     <<LookAtLeft.y, LookAtNewUp.y, LookAtForward.y,
                       FNeg(dot(LookAtNewUp, args.position))>>,
                     <<LookAtLeft.z, LookAtNewUp.z, LookAtForward.z,
                       FNeg(dot(LookAtForward, args.position))>>,
                     <<F(0), F(0), F(0), F(1)>>)

\* A view matrix takes the camera position to the origin; the matrix of
\* the code does so only when its 3x3 block is symmetric.
LookAtPositionToOrigin ==
    (ReturnedLookAt /\ LookAtNonDegenerate) =>
        Matrix4_mul_Vector3(ret.v, args.position) = Vector3_zero

------------------------------------------------------------------------------
(* Vector3::random_in_unit_sphere and Vector3::random_in_unit_disk *)

\* rng.gen::<f32>() is uniform in [0, 1): the draws are k / RngSteps for
\* k in 0 .. RngSteps - 1.
RngSteps == 8

Draws == {Rat(k, RngSteps) : k \in 0..(RngSteps - 1)}

\* Vector3::new(r1, r2, r3) * 2.0 - Vector3::new(1.0, 1.0, 1.0)
sphere_candidate(r1, r2, r3) ==
    Vector3_sub(Vector3_mul_f32(Vector3_new(r1, r2, r3), F(2)),
                Vector3_new(F(1), F(1), F(1)))

\* Vector3::new(r1, r2, 0.0) * 2.0 - Vector3::new(1.0, 1.0, 0.0)
disk_candidate(r1, r2) ==
    Vector3_sub(Vector3_mul_f32(Vector3_new(r1, r2, F(0)), F(2)),
                Vector3_new(F(1), F(1), F(0)))

\* The candidates of all draws.
SphereCandidates ==
    {sphere_candidate(r1, r2, r3) : r1 \in Draws, r2 \in Draws, r3 \in Draws}

DiskCandidates == {disk_candidate(r1, r2) : r1 \in Draws, r2 \in Draws}

\* The exit test of the sphere loop with <= for <.
sphere_accepts_inclusive(q) == ~FLt(F(1), length_squared(q))

\* The exit test of the sphere loop: p.length_squared() < 1.0
sphere_accepts(q) == FLt(length_squared(q), F(1))

\* The exit test of the disk loop against 0.0 for 1.0.
disk_accepts_below_zero(q) == FLt(dot(q, q), F(0))

\* The exit test of the disk loop: Vector3::dot(p, p) < 1.0
disk_accepts(q) == FLt(dot(q, q), F(1))

\* The candidates on which the exit test succeeds.
SphereAccepted == {q \in SphereCandidates : sphere_accepts(q)}

DiskAccepted == {q \in DiskCandidates : disk_accepts(q)}

\* let mut p = Vector3::zero(); and the loop is entered.
InitRandom ==
    /\ pc = "loop"
    /\ fn \in {"Vector3::random_in_unit_sphere", "Vector3::random_in_unit_disk"}
    /\ args = NoValue
    /\ this = NoValue
    /\ p = Vector3_zero
    /\ ret = NoValue

\* One iteration of the sphere loop: draw, assign p, test, break or repeat.
SphereIterate ==
    /\ pc = "loop"
    /\ fn = "Vector3::random_in_unit_sphere"
    /\ p' \in SphereCandidates
    /\ pc' = IF p' \in SphereAccepted THEN "break" ELSE "loop"
    /\ UNCHANGED <<fn, args, this, ret>>

\* One iteration of the disk loop.
DiskIterate ==
    /\ pc = "loop"
    /\ fn = "Vector3::random_in_unit_disk"
    /\ p' \in DiskCandidates
    /\ pc' = IF p' \in DiskAccepted THEN "break" ELSE "loop"
    /\ UNCHANGED <<fn, args, this, ret>>

\* After the loop: p is returned.
RandomReturn ==
    /\ pc = "break"
    /\ ret' = Some(p)
    /\ pc' = "ret"
    /\ UNCHANGED <<fn, args, this, p>>

NextRandom == SphereIterate \/ DiskIterate \/ RandomReturn

SpecRandom == InitRandom /\ [][NextRandom]_vars

\* C8: every value returned by Vector3::random_in_unit_sphere has squared
\* length below 1, and it is the candidate of the last iteration.
C8_ReturnedInsideSphere ==
    (pc = "ret" /\ fn = "Vector3::random_in_unit_sphere") =>
        (FLt(length_squared(ret.v), F(1)) /\ ret.v = p)

\* A candidate with components -1/2, 1/2, 1/2 (squared length 3/4) has been
\* returned.
C8_Witness ==
    /\ pc = "ret"
    /\ fn = "Vector3::random_in_unit_sphere"
    /\ ret.v = Vector3_new(Rat(-1, 2), Rat(1, 2), Rat(1, 2))

------------------------------------------------------------------------------
(* Index and IndexMut of Vector3 and Vector2i *)

Panic(msg) == [kind |-> "Panic", msg |-> msg]

\* impl Index<usize> for Vector3, reducing the index modulo 3.
Vector3_index_wrapping(self, index) ==
    CASE index % 3 = 0 -> Some(self.x)
      [] index % 3 = 1 -> Some(self.y)
      [] OTHER -> Some(self.z)

\* impl Index<usize> for Vector3: the value of the field referred to.
Vector3_index(self, index) ==
    CASE index = 0 -> Some(self.x)
      [] index = 1 -> Some(self.y)
      [] index = 2 -> Some(self.z)
      [] OTHER -> Panic("Invalid Vector3 Index")

\* impl IndexMut<usize> for Vector3: the field referred to.
Vector3_index_mut(self, index) ==
    CASE index = 0 -> Some("x")
      [] index = 1 -> Some("y")
      [] index = 2 -> Some("z")
      [] OTHER -> Panic("Invalid Vector3 Index")

\* impl Index<usize> for Vector2i.
Vector2i_index(self, index) ==
    CASE index = 0 -> Some(self.x)
      [] index = 1 -> Some(self.y)
      [] OTHER -> Panic("Invalid Vector2i index")

\* impl IndexMut<usize> for Vector2i.
Vector2i_index_mut(self, index) ==
    CASE index = 0 -> Some("x")
      [] index = 1 -> Some("y")
      [] OTHER -> Panic("Invalid Vector2i index")

\* Indices drawn: 0 .. MaxIndex (a usize is never negative).
MaxIndex == 4

NearPoints2i == {Vector2i_new(x, y) : x \in 0..MaxCoord2i, y \in 0..MaxCoord2i}

\* The value written through IndexMut; no vector drawn holds it.
WrittenValue == MaxCoord2i + MaxCoord3 + 1

InitIndex ==
    /\ pc = "call"
    /\ \/ /\ fn \in {"Vector3::index", "Vector3::index_mut"}
          /\ this \in CornerVectors3
          /\ args \in [self : {this}, index : 0..MaxIndex, value : {F(WrittenValue)}]
       \/ /\ fn \in {"Vector2i::index", "Vector2i::index_mut"}
          /\ this \in NearPoints2i
          /\ args \in [self : {this}, index : 0..MaxIndex, value : {WrittenValue}]
    /\ p = Vector3_zero
    /\ ret = NoValue

\* The outcome r of an indexing function: a panic unwinds without a value.
Outcome(r) ==
    IF r.kind = "Panic" THEN pc' = "panic" /\ ret' = NoValue
    ELSE pc' = "ret" /\ ret' = r

\* let r = this[index];
CallVector3Index ==
    /\ pc = "call"
    /\ fn = "Vector3::index"
    /\ Outcome(Vector3_index(this, args.index))
    /\ UNCHANGED <<fn, args, this, p>>

\* this[index] = value;
CallVector3IndexMut ==
    /\ pc = "call"
    /\ fn = "Vector3::index_mut"
    /\ LET r == Vector3_index_mut(this, args.index)
       IN  /\ Outcome(r)
           /\ this' = IF r.kind = "Panic" THEN this
                      ELSE [this EXCEPT ![r.v] = args.value]
    /\ UNCHANGED <<fn, args, p>>

\* let r = this[index];
CallVector2iIndex ==
    /\ pc = "call"
    /\ fn = "Vector2i::index"
    /\ Outcome(Vector2i_index(this, args.index))
    /\ UNCHANGED <<fn, args, this, p>>

\* this[index] = value;
CallVector2iIndexMut ==
    /\ pc = "call"
    /\ fn = "Vector2i::index_mut"
    /\ LET r == Vector2i_index_mut(this, args.index)
       IN  /\ Outcome(r)
           /\ this' = IF r.kind = "Panic" THEN this
                      ELSE [this EXCEPT ![r.v] = args.value]
    /\ UNCHANGED <<fn, args, p>>

NextIndex ==
    \/ CallVector3Index
    \/ CallVector3IndexMut
    \/ CallVector2iIndex
    \/ CallVector2iIndexMut

SpecIndex == InitIndex /\ [][NextIndex]_vars

\* The field of a vector that index i stands for.
FieldOf(i) == CASE i = 0 -> "x" [] i = 1 -> "y" [] OTHER -> "z"

\* A read of field i returned its value and left the vector as it was.
ReadOk(i) ==
    pc = "ret" /\ ret = Some(args.self[FieldOf(i)]) /\ this = args.self

\* A write to field i stored the value there and nowhere else.
WriteOk(i) ==
    pc = "ret" /\ this = [args.self EXCEPT ![FieldOf(i)] = args.value]

\* The access panicked: no value, and the vector as it was.
Panicked == pc = "panic" /\ ret = NoValue /\ this = args.self

\* C9: on Vector3 the indices 0, 1, 2 give x, y, z and on Vector2i the
\* indices 0, 1 give x, y, for reads and for writes; every other index
\* panics, returning nothing and changing nothing.
C9_IndexFailFast ==
    (pc # "call") =>
        /\ fn = "Vector3::index" =>
              IF args.index <= 2 THEN ReadOk(args.index) ELSE Panicked
        /\ fn = "Vector3::index_mut" =>
              IF args.index <= 2 THEN WriteOk(args.index) ELSE Panicked
        /\ fn = "Vector2i::index" =>
              IF args.index <= 1 THEN ReadOk(args.index) ELSE Panicked
        /\ fn = "Vector2i::index_mut" =>
              IF args.index <= 1 THEN WriteOk(args.index) ELSE Panicked

\* A Vector3 with distinct y and z has been read at index 3, one past its
\* last field, and the read panicked.
C9_Witness ==
    /\ pc = "panic"
    /\ fn = "Vector3::index"
    /\ args.index = 3
    /\ args.self.y # args.self.z
    /\ ret = NoValue

------------------------------------------------------------------------------
(* Vector3::barycentric *)

\* Vector3::barycentric returning the weights of v1 and v2 in each other's
\* place.
Vector3_barycentric_swapped(point, v0, v1, v2) ==
    LET vec0 == Vector3_sub(v1, v0)
        vec1 == Vector3_sub(v2, v0)
        vec2 == Vector3_sub(point, v0)
        d00 == dot(vec0, vec0)
        d01 == dot(vec0, vec1)
        d11 == dot(vec1, vec1)
        d20 == dot(vec2, vec0)
        d21 == dot(vec2, vec1)
        denom == FSub(FMul(d00, d11), FMul(d01, d01))
        v == FDiv(FSub(FMul(d11, d20), FMul(d01, d21)), denom)
        w == FDiv(FSub(FMul(d00, d21), FMul(d01, d20)), denom)
        u == FSub(FSub(F(1), v), w)
    IN  Some(Vector3_new(u, w, v))

\* Vector3::barycentric.
Vector3_barycentric(point, v0, v1, v2) ==
    LET vec0 == Vector3_sub(v1, v0)
        vec1 == Vector3_sub(v2, v0)
        vec2 == Vector3_sub(point, v0)
        d00 == dot(vec0, vec0)
        d01 == dot(vec0, vec1)
        d11 == dot(vec1, vec1)
        d20 == dot(vec2, vec0)
        d21 == dot(vec2, vec1)
        denom == FSub(FMul(d00, d11), FMul(d01, d01))
        v == FDiv(FSub(FMul(d11, d20), FMul(d01, d21)), denom)
        w == FDiv(FSub(FMul(d00, d21), FMul(d01, d20)), denom)
        u == FSub(FSub(F(1), v), w)
    IN  Some(Vector3_new(u, v, w))

\* Coordinates of the points drawn: x in 0 .. MaxCoordTri, y and z in 0 .. 1.
MaxCoordTri == 2

PointsTri ==
    {Vector3_new(F(x), F(y), F(z)) : x \in 0..MaxCoordTri, y \in 0..1, z \in 0..1}

InitBarycentric3 ==
    /\ pc = "call"
    /\ fn = "Vector3::barycentric"
    /\ args \in [point : PointsTri, v0 : PointsTri, v1 : PointsTri, v2 : PointsTri]
    /\ this = NoValue
    /\ p = Vector3_zero
    /\ ret = NoValue

CallVector3Barycentric ==
    /\ pc = "call"
    /\ fn = "Vector3::barycentric"
    /\ ret' = Vector3_barycentric(args.point, args.v0, args.v1, args.v2)
    /\ pc' = "ret"
    /\ UNCHANGED <<fn, args, this, p>>

NextBarycentric3 == CallVector3Barycentric

SpecBarycentric3 == InitBarycentric3 /\ [][NextBarycentric3]_vars

Returned3 == pc = "ret" /\ fn = "Vector3::barycentric"

\* Exact vector arithmetic on the arguments.
QSub3(a, b) ==
    Vector3_new(QAdd(a.x, FNeg(b.x)), QAdd(a.y, FNeg(b.y)), QAdd(a.z, FNeg(b.z)))

QDot3(a, b) == QAdd(QAdd(QMul(a.x, b.x), QMul(a.y, b.y)), QMul(a.z, b.z))

QCross3(a, b) ==
    Vector3_new(QAdd(QMul(a.y, b.z), FNeg(QMul(a.z, b.y))),
                QAdd(QMul(a.z, b.x), FNeg(QMul(a.x, b.z))),
                QAdd(QMul(a.x, b.y), FNeg(QMul(a.y, b.x))))

\* The normal of the triangle; zero exactly when the vertices are collinear.
TriNormal(v0, v1, v2) == QCross3(QSub3(v1, v0), QSub3(v2, v0))

NonCollinear3(v0, v1, v2) == TriNormal(v0, v1, v2) # Vector3_zero

\* The point lies in the plane of the triangle.
Coplanar3(point, v0, v1, v2) ==
    QDot3(TriNormal(v0, v1, v2), QSub3(point, v0)) = F(0)

\* u*a + v*b + w*c
Combine(wt, a, b, c) == QAdd(QAdd(QMul(wt.x, a), QMul(wt.y, b)), QMul(wt.z, c))

\* u + v + w = 1 and point = u*v0 + v*v1 + w*v2 on the three axes.
IsBarycentric3(wt, point, v0, v1, v2) ==
    /\ IsFinite(wt.x) /\ IsFinite(wt.y) /\ IsFinite(wt.z)
    /\ QAdd(QAdd(wt.x, wt.y), wt.z) = F(1)
    /\ Combine(wt, v0.x, v1.x, v2.x) = point.x
    /\ Combine(wt, v0.y, v1.y, v2.y) = point.y
    /\ Combine(wt, v0.z, v1.z, v2.z) = point.z

Residual(wt, point, v0, v1, v2) ==
    Vector3_new(QAdd(point.x, FNeg(Combine(wt, v0.x, v1.x, v2.x))),
                QAdd(point.y, FNeg(Combine(wt, v0.y, v1.y, v2.y))),
                QAdd(point.z, FNeg(Combine(wt, v0.z, v1.z, v2.z))))

------------------------------------------------------------------------------
(* Vector2i::bbox3 *)

\* The coordinates are i32.
I32_MAX == 2 ^ 30 + (2 ^ 30 - 1)

I32_MIN == -I32_MAX - 1

\* std::cmp::min and std::cmp::max on i32.
min(a, b) == IF b < a THEN b ELSE a

max(a, b) == IF b > a THEN b ELSE a

\* Vector2i::bbox3 with min_y taken over v0 and v1 only.
bbox3_two_vertices(v0, v1, v2) ==
    LET min_x == min(v0.x, min(v1.x, v2.x))
        max_x == max(v0.x, max(v1.x, v2.x))
        min_y == min(v0.y, v1.y)
        max_y == max(v0.y, max(v1.y, v2.y))
    IN  <<Vector2i_new(min_x, min_y), Vector2i_new(max_x, max_y)>>

\* Vector2i::bbox3
bbox3(v0, v1, v2) ==
    LET min_x == min(v0.x, min(v1.x, v2.x))
        max_x == max(v0.x, max(v1.x, v2.x))
        min_y == min(v0.y, min(v1.y, v2.y))
        max_y == max(v0.y, max(v1.y, v2.y))
    IN  <<Vector2i_new(min_x, min_y), Vector2i_new(max_x, max_y)>>

\* The vertices drawn: a grid around the origin with negative coordinates, and
\* the two points that carry the extreme values of i32 on opposite axes.
BoxPoints ==
    {Vector2i_new(x, y) : x \in (-1)..MaxCoord2i, y \in (-1)..1}
        \cup {Vector2i_new(I32_MIN, I32_MAX), Vector2i_new(I32_MAX, I32_MIN)}

InitBbox3 ==
    /\ pc = "call"
    /\ fn = "Vector2i::bbox3"
    /\ args \in [v0 : BoxPoints, v1 : BoxPoints, v2 : BoxPoints]
    /\ this = NoValue
    /\ p = Vector3_zero
    /\ ret = NoValue

CallVector2iBbox3 ==
    /\ pc = "call"
    /\ fn = "Vector2i::bbox3"
    /\ ret' = Some(bbox3(args.v0, args.v1, args.v2))
    /\ pc' = "ret"
    /\ UNCHANGED <<fn, args, this, p>>

NextBbox3 == CallVector2iBbox3

SpecBbox3 == InitBbox3 /\ [][NextBbox3]_vars

ReturnedBbox3 == pc = "ret" /\ fn = "Vector2i::bbox3"

\* The coordinates of the three vertices on one axis.
VertexCoords(axis) == {args.v0[axis], args.v1[axis], args.v2[axis]}

\* C11: Vector2i::bbox3 returns the tight axis-aligned bounding box. On each
\* axis, min is at most and max at least every vertex coordinate, each of
\* them is the coordinate of some vertex, min <= max, and the result is the
\* same for every order of the three arguments.
C11_TightBoundingBox ==
    ReturnedBbox3 =>
        LET lo == ret.v[1]
            hi == ret.v[2]
        IN  /\ \A axis \in {"x", "y"} :
                  /\ \A c \in VertexCoords(axis) : lo[axis] <= c /\ c <= hi[axis]
                  /\ lo[axis] \in VertexCoords(axis)
                  /\ hi[axis] \in VertexCoords(axis)
                  /\ lo[axis] <= hi[axis]
            /\ \A a \in {args.v0, args.v1, args.v2},
                  b \in {args.v0, args.v1, args.v2},
                  c \in {args.v0, args.v1, args.v2} :
                  {a, b, c} = {args.v0, args.v1, args.v2} => bbox3(a, b, c) = ret.v

\* A box has been returned of which neither corner is a vertex: the vertices
\* come in increasing x, the lower y bound is set by the last argument alone,
\* and the bounds are the extreme values of i32.
C11_Witness ==
    /\ ReturnedBbox3
    /\ ret.v[1] \notin {args.v0, args.v1, args.v2}
    /\ ret.v[2] \notin {args.v0, args.v1, args.v2}
    /\ args.v2.y < args.v0.y /\ args.v2.y < args.v1.y
    /\ args.v0.x < args.v1.x /\ args.v1.x < args.v2.x
    /\ ret.v[1] = Vector2i_new(I32_MIN, I32_MIN)
    /\ ret.v[2] = Vector2i_new(I32_MAX, I32_MAX)

------------------------------------------------------------------------------
(* Termination of the rejection-sampling loops *)

\* The iterations that end at break, and those that go round again.
SphereAccept == SphereIterate /\ pc' = "break"

DiskAccept == DiskIterate /\ pc' = "break"

SphereReject == SphereIterate /\ pc' = "loop"

DiskReject == DiskIterate /\ pc' = "loop"

\* The calls under a random source that does not forever withhold an accepted
\* candidate: an accepting iteration, enabled in every state of the loop, is
\* eventually taken, and the return after the loop is taken.
SpecRandomFair ==
    /\ InitRandom
    /\ [][NextRandom]_vars
    /\ WF_vars(SphereAccept)
    /\ WF_vars(DiskAccept)
    /\ WF_vars(RandomReturn)

\* The calls under a source of which only progress is known: the loop keeps
\* iterating, with arbitrary draws.
SpecRandomProgress ==
    /\ InitRandom
    /\ [][NextRandom]_vars
    /\ WF_vars(NextRandom)

\* C12: under the fair random source each call of
\* Vector3::random_in_unit_sphere and Vector3::random_in_unit_disk eventually
\* returns; and in every state of the loop both an accepting and a rejecting
\* iteration are possible, so that no number of iterations bounds the loop.
C12_EventuallyReturns ==
    /\ <>(pc = "ret")
    /\ [](pc = "loop" =>
            IF fn = "Vector3::random_in_unit_sphere"
            THEN (ENABLED SphereAccept) /\ (ENABLED SphereReject)
            ELSE (ENABLED DiskAccept) /\ (ENABLED DiskReject))

\* The disk loop has been left and its call has returned the last candidate,
\* one off the diagonal on which the exit test succeeds.
C12_Witness ==
    /\ pc = "ret"
    /\ fn = "Vector3::random_in_unit_disk"
    /\ ret = Some(p)
    /\ p \in DiskCandidates
    /\ disk_accepts(p)
    /\ p.x # p.y

\* Supporting: the loop is in an iteration after a rejected candidate.
RejectedAndLooping ==
    /\ pc = "loop"
    /\ p # Vector3_zero
    /\ ~disk_accepts(p)

------------------------------------------------------------------------------
(* Matrix4 * Matrix4 against Matrix4 * Vector4 *)

\* Matrices with integer-valued entries: identity, shear, scale and
\* translation rows, and the bottom row (0, 0, -1, 0) of Matrix4::perpective.
ProductMatrices ==
    {Rows(r0, r1, r2, r3) :
        r0 \in {<<F(1), F(0), F(0), F(0)>>, <<F(1), F(1), F(0), F(0)>>,
                <<F(-1), F(2), F(0), F(3)>>},
        r1 \in {<<F(0), F(1), F(0), F(0)>>, <<F(2), F(0), F(-1), F(1)>>},
        r2 \in {<<F(0), F(0), F(1), F(0)>>},
        r3 \in {<<F(0), F(0), F(0), F(1)>>, <<F(0), F(0), F(-1), F(0)>>}}

\* A matrix with an entry at the end of the range in which f32 holds every
\* integer.
FarMatrix ==
    Rows(<<F(F32_EXACT), F(1), F(0), F(0)>>, <<F(0), F(1), F(0), F(0)>>,
         <<F(0), F(0), F(1), F(0)>>, <<F(0), F(0), F(0), F(1)>>)

\* Points (w = 1) and directions (w = 0).
Vectors4 == {to_vector4(u, F(w)) : u \in CornerVectors3, w \in {0, 1}}

InitProduct ==
    /\ pc = "call"
    /\ fn = "Matrix4::mul(Matrix4)"
    /\ args \in [a : ProductMatrices, b : ProductMatrices \cup {FarMatrix},
                 v : Vectors4]
    /\ this = NoValue
    /\ p = Vector3_zero
    /\ ret = NoValue

\* let ab = a * b; let ab_v = ab * v; let a_bv = a * (b * v);
CallProduct ==
    /\ pc = "call"
    /\ fn = "Matrix4::mul(Matrix4)"
    /\ LET ab == Matrix4_mul(args.a, args.b)
       IN  ret' = [kind |-> "Some",
                   ab |-> ab,
                   ab_v |-> Matrix4_mul_Vector4(ab, args.v),
                   a_bv |-> Matrix4_mul_Vector4(args.a,
                                Matrix4_mul_Vector4(args.b, args.v))]
    /\ pc' = "ret"
    /\ UNCHANGED <<fn, args, this, p>>

NextProduct == CallProduct

SpecProduct == InitProduct /\ [][NextProduct]_vars

ReturnedProduct == pc = "ret" /\ fn = "Matrix4::mul(Matrix4)"

\* The row-by-column product in exact arithmetic.
RowByColumn(a, b) ==
    [i \in Idx4 |-> [j \in Idx4 |->
        QAdd(QAdd(QAdd(QMul(a[i][0], b[0][j]), QMul(a[i][1], b[1][j])),
                  QMul(a[i][2], b[2][j])),
             QMul(a[i][3], b[3][j]))]]

\* The product computed in a buffer that starts as the zero matrix.
ProductFromZero(a, b) == Matrix4_mul_loop(Matrix4_zero, a, b, 0)

\* C13 as stated: for all matrices a, b with integer-valued entries and every
\* Vector4 v, (a * b) * v = a * (b * v) exactly, a * b is the row-by-column
\* product, and it does not depend on the contents the buffer starts with.
C13_ProductComposes ==
    ReturnedProduct =>
        /\ ret.ab_v = ret.a_bv
        /\ ret.ab = RowByColumn(args.a, args.b)
        /\ ret.ab = ProductFromZero(args.a, args.b)

\* The largest magnitude among a set of integer-valued f32 values.
MaxAbs(S) == CHOOSE m \in {Abs(e.n) : e \in S} : \A e \in S : Abs(e.n) <= m

MaxAbsMatrix(m) == MaxAbs({m[i][j] : i \in Idx4, j \in Idx4})

MaxAbsVector4(v) == MaxAbs({v.x, v.y, v.z, v.w})

\* 16 * max|a| * max|b| * max|v| <= 2^24: every product and every partial sum
\* of the three multiplications is an integer that f32 holds exactly.
ProductIsExact(a, b, v) ==
    \/ MaxAbsMatrix(b) = 0
    \/ MaxAbsVector4(v) = 0
    \/ MaxAbsMatrix(a) <=
         ((F32_EXACT \div 16) \div MaxAbsMatrix(b)) \div MaxAbsVector4(v)

\* C13, amended: the buffer's initial contents never matter; and for
\* integer-valued entries small enough that f32 holds every intermediate
\* value, a * b is the row-by-column product and (a * b) * v = a * (b * v).
C13_ExactProductComposes ==
    ReturnedProduct =>
        /\ ret.ab = ProductFromZero(args.a, args.b)
        /\ ProductIsExact(args.a, args.b, args.v) =>
              /\ ret.ab_v = ret.a_bv
              /\ ret.ab = RowByColumn(args.a, args.b)

\* Two matrices that do not commute, neither the identity, with a bottom row
\* that is not affine, have been multiplied and applied to a point that they
\* move: the right operand was applied first.
C13_Witness ==
    /\ ReturnedProduct
    /\ ProductIsExact(args.a, args.b, args.v)
    /\ args.a # Matrix4_identity /\ args.b # Matrix4_identity
    /\ args.b[3] # Matrix4_identity[3]
    /\ ret.ab # Matrix4_mul(args.b, args.a)
    /\ args.v.w = F(1)
    /\ ret.ab_v # args.v
    /\ ret.ab_v = ret.a_bv
    /\ ret.ab_v # Matrix4_mul_Vector4(args.b, Matrix4_mul_Vector4(args.a, args.v))

\* Supporting: the case in which rounding separates the two sides.
RoundedProductDiffers ==
    /\ ReturnedProduct
    /\ args.b = FarMatrix
    /\ ret.ab_v # ret.a_bv

=============================================================================
